---- MODULE Spec2Model ----
(***************************************************************************)
(* Model of parallax-webflow.js, version 2.4.2 (src/unnamed/part_000):     *)
(* element preparation (initParallax), the transform evaluator             *)
(* (updateParallax), the scroll/resize scheduler (attachScrollListener),   *)
(* the dynamic-content observer (observeDOM) and the start-up code.        *)
(*                                                                         *)
(* Numbers the script computes with are exact rationals [n, d] (d > 0, in  *)
(* lowest terms); attribute values are kept as what the markup holds       *)
(* (absent, a non-numeric string, or a number) and are parsed the way      *)
(* parseFloat / parseInt / || do.                                          *)
(***************************************************************************)
EXTENDS Integers, Sequences, FiniteSets, Bags, TLC

\* ------------------------------------------------------------- bounds
\* Marker-bearing elements besides the document's root element.
NumElems == 2
\* Granularity of modelled time, in milliseconds.
TickMs == 100
\* Timers that document insertions may leave pending at once.
MaxTimers == 2

\* ---------------------------------------------------------- rationals
Abs(x) == IF x < 0 THEN -x ELSE x

RECURSIVE GCD(_, _)
GCD(a, b) == IF b = 0 THEN a ELSE GCD(b, a % b)

Rat(n, d) ==
  LET g == GCD(Abs(n), Abs(d))
      s == IF d < 0 THEN -1 ELSE 1
  IN  [n |-> (s * n) \div g, d |-> (s * d) \div g]

FromInt(i) == [n |-> i, d |-> 1]
Zero == FromInt(0)
RMul(a, b) == Rat(a.n * b.n, a.d * b.d)
RSub(a, b) == Rat(a.n * b.d - b.n * a.d, a.d * b.d)
RDiv(a, b) == Rat(a.n * b.d, a.d * b.n)
RNeg(a) == [n |-> -a.n, d |-> a.d]
RLe(a, b) == a.n * b.d <= b.n * a.d
\* Math.max / Math.min on finite numbers.
RMax(a, b) == IF RLe(a, b) THEN b ELSE a
RMin(a, b) == IF RLe(a, b) THEN a ELSE b

\* ------------------------------------------------------------- CONFIG
defaultSpeed == 2
defaultHeight == 130
defaultHorizontalScale == Rat(11, 10)
defaultDirection == "vertical"
mobileBreakpoint == 768
tabletBreakpoint == 992
\* setTimeout delays: the resize debounce and the observer's re-initialisation
\* (also the host framework's delayed init).
ResizeDelay == 150
ReinitDelay == 100

\* ------------------------------------------------- attribute parsing
\* An attribute as the markup holds it.
Absent == [k |-> "absent", v |-> Zero]
Junk == [k |-> "junk", v |-> Zero]
Num(n, d) == [k |-> "num", v |-> Rat(n, d)]

\* parseFloat: NaN for a missing attribute or a non-numeric string.
parseFloat(a) ==
  IF a.k = "num" THEN [nan |-> FALSE, v |-> a.v] ELSE [nan |-> TRUE, v |-> Zero]

\* parseInt: the integer part, truncated towards zero.
parseInt(a) ==
  IF a.k = "num"
  THEN [nan |-> FALSE,
        v |-> FromInt(IF a.v.n >= 0 THEN a.v.n \div a.v.d
                                    ELSE -((-a.v.n) \div a.v.d))]
  ELSE [nan |-> TRUE, v |-> Zero]

\* A configuration value read without its fallback.
OrDefault_NoFallback(p, dflt) == p.v

\* x || dflt on a number: NaN and 0 are falsy.
OrDefault(p, dflt) == IF p.nan \/ p.v.n = 0 THEN dflt ELSE p.v

\* String.prototype.toLowerCase on the direction strings of the model.
toLowerCase(s) ==
  CASE s = "Horizontal" -> "horizontal"
    [] s = "BOTH" -> "both"
    [] OTHER -> s

\* Lines 27-32: the configuration read from an element's data attributes.
\* A missing direction attribute is the string "absent".
ReadConfig(at) ==
  [direction |-> toLowerCase(IF at.direction = "absent" THEN defaultDirection
                                                         ELSE at.direction),
   speed |-> OrDefault(parseFloat(at.speed), FromInt(defaultSpeed)),
   imageHeight |-> OrDefault(parseInt(at.height), FromInt(defaultHeight)),
   horizontalScale |-> OrDefault(parseFloat(at.scale), defaultHorizontalScale),
   disableMobile |-> (at.mobile = "false"),
   disableTablet |-> (at.tablet = "false")]

\* ---------------------------------------------------------------- state
Root == 0
Elem == 0 .. NumElems
Targets == 1 .. NumElems

VARIABLES
  els,            \* the document: per element, its attributes and place
  instances,      \* let instances = []
  listenerAdded,  \* window._parallaxListenerAdded
  scrollListeners, resizeListeners,  \* listeners registered on window
  ticking,        \* attachScrollListener's "run is pending" guard
  rafPending,     \* animation-frame requests not yet served
  timers,         \* pending setTimeout timers, a bag of [fn, rem, handle]
  sinceResize,    \* milliseconds since the last resize event (capped)
  observers,      \* MutationObservers registered on document.body
  ready,          \* "loading" until DOMContentLoaded has run init
  webflow,        \* window.Webflow: "none", "pushed" (callback queued), "called"
  win,            \* [w, h, y]: innerWidth, innerHeight, scroll offset
  transform,      \* per element, img.style.transform
  last,           \* the handler that ran last: [op, threw, pass], op being "init"
                  \* (initParallax), "pass" (updateParallax), "resizeTimer" or "env"
  hist,           \* what the scheduler has seen, each count up to 2:
                  \* [events, runs, scrolls]: resize events of the current
                  \* burst, resize-driven passes since its last event, and
                  \* scroll events since the last frame was served
  second          \* on a page that loads src/parallax.js, the state of the
                  \* file's second script: [instances, listeners, ticking,
                  \* rafPending, observers]; unused on any other page

vars == <<els, instances, listenerAdded, scrollListeners, resizeListeners,
          ticking, rafPending, timers, sinceResize, observers, ready, webflow,
          win, transform, last, hist, second>>

\* ------------------------------------------------------------ geometry
\* wrapper.getBoundingClientRect(): the container's box relative to the
\* viewport; a container that is not in the document has an all-zero box.
Rect(el, y) ==
  IF el.inDoc
  THEN [top |-> el.docTop - y, height |-> el.boxH, bottom |-> el.docTop - y + el.boxH]
  ELSE [top |-> 0, height |-> 0, bottom |-> 0]

\* ------------------------------------------------- transform evaluator
\* Values of img.style.transform.
TUnset == [kind |-> "unset", s |-> Zero, x |-> Zero, y |-> Zero]
TNone == [kind |-> "none", s |-> Zero, x |-> Zero, y |-> Zero]
\* translate3d(0, y px, 0)
T3d(y) == [kind |-> "translate3d", s |-> Zero, x |-> Zero, y |-> y]
\* scale(s) translateX(x%)
TScaleX(s, x) == [kind |-> "scaleTranslateX", s |-> s, x |-> x, y |-> Zero]
\* scale(s) translate(x%, y%)
TScaleXY(s, x, y) == [kind |-> "scaleTranslate", s |-> s, x |-> x, y |-> y]

\* A breakpoint gate that knows the mobile band only.
Gated_MobileOnly(inst, w) == inst.disableMobile /\ w < 768

\* Lines 156-157: the breakpoint gate.
Gated(inst, w) ==
  \/ inst.disableMobile /\ w < mobileBreakpoint
  \/ inst.disableTablet /\ w >= mobileBreakpoint /\ w < tabletBreakpoint

\* Line 165: the visibility gate.
InViewport(rect, h) == rect.top < h /\ rect.bottom > 0

\* A progress that leaves the container's height out of the travel.
scrollProgress_NoHeight(rect, h) == Rat(h - rect.top, h)

\* Lines 167-168.
scrollProgress(rect, h) == Rat(h - rect.top, h + rect.height)
centerProgress(rect, h) == RSub(scrollProgress(rect, h), Rat(1, 2))

\* Lines 177 and 191: Math.max(0, (((horizontalScale - 1) / 2) * 100) - 0.5).
maxTranslate(horizontalScale) ==
  RMax(Zero,
       RSub(RMul(RDiv(RSub(horizontalScale, FromInt(1)), FromInt(2)), FromInt(100)),
            Rat(1, 2)))

\* The translation left as computed (as version 2.3 of the script does).
Clamp_None(x, maxT) == x

\* Lines 183 and 195: Math.max(-maxTranslate, Math.min(maxTranslate, translateX)).
Clamp(x, maxT) == RMax(RNeg(maxT), RMin(maxT, x))

\* Lines 180-183 and 194-195: the horizontal translation, in percent.
translateX(inst, cp) ==
  LET maxT == maxTranslate(inst.horizontalScale)
      want == RMul(RMul(RMul(RNeg(cp), FromInt(2)), maxT), inst.speed)
  IN  Clamp(want, maxT)

\* A vertical offset with half the travel.
parallaxOffset_Half(cp, speed) == RMul(RMul(cp, FromInt(100)), speed)

\* Line 204: centerProgress * 200 * speed, in pixels.
parallaxOffset(cp, speed) == RMul(RMul(cp, FromInt(200)), speed)

\* Lines 170-208: the transform of a visible, ungated instance.
VisibleTransform(inst, rect, h) ==
  LET cp == centerProgress(rect, h) IN
  IF inst.direction = "horizontal"
  THEN TScaleX(inst.horizontalScale, translateX(inst, cp))
  ELSE IF inst.direction = "both"
  THEN TScaleXY(inst.horizontalScale, translateX(inst, cp),
                RMul(RMul(cp, FromInt(100)), inst.speed))
  ELSE T3d(parallaxOffset(cp, inst.speed))

\* An evaluator that resets the transform of an off-screen instance.
EvalInstance_ResetOffscreen(inst, old, rect, w, h) ==
  IF Gated(inst, w) THEN TNone
  ELSE IF InViewport(rect, h) THEN VisibleTransform(inst, rect, h)
  ELSE TNone

\* Lines 154-210: one instance's step of the forEach; old is the transform the
\* element holds.
EvalInstance(inst, old, rect, w, h) ==
  IF Gated(inst, w) THEN TNone
  ELSE IF InViewport(rect, h) THEN VisibleTransform(inst, rect, h)
  ELSE old

\* Lines 150-211: updateParallax over the instances from index k on.
RECURSIVE UpdateFrom(_, _, _, _, _)
UpdateFrom(k, insts, tr, doc, w) ==
  IF k > Len(insts) THEN tr
  ELSE LET inst == insts[k]
       IN  UpdateFrom(k + 1, insts,
             [tr EXCEPT ![inst.img] =
                EvalInstance(inst, @, Rect(doc[inst.img], w.y), w.w, w.h)],
             doc, w)

\* A pass that evaluates nothing.
updateParallax_Noop(insts, tr, doc, w) == tr

updateParallax(insts, tr, doc, w) == UpdateFrom(1, insts, tr, doc, w)

\* ---------------------------------------------------- element preparer
\* Line 18: document.querySelectorAll('[data-parallax]'), in document order
\* (the root element first).
Matching(doc) == {e \in Elem : doc[e].inDoc /\ doc[e].marker}

\* A preparer that does not look at the initialisation marker.
AlreadyInitialized_Never(el) == FALSE

\* Line 24: img.dataset.parallaxInit === 'true'.
AlreadyInitialized(el) == el.init

\* Line 38: parent.classList.contains('parallax-wrapper'); the class is on a
\* wrapper the script made and on one the page's markup provides.
ParentIsWrapper(el) == el.parent \in {"wrapper", "authored"}

\* Lines 36-38: img.parentElement is null for the document's root element,
\* and reading parent.classList then raises a TypeError.
ParentDerefThrows(el) == el.parent = "none"

\* A preparer that moves every marker element into a new wrapper on every
\* call, prepared or not.
PrepareOne_Rewrap(e, S) ==
  IF S.threw \/ e \notin Matching(S.els) THEN S
  ELSE [S EXCEPT !.els[e].parent = "wrapper", !.els[e].wraps = @ + 1,
                 !.els[e].init = TRUE, !.wrapped = @ + 1]

\* Lines 22-139: the forEach body for element e. S carries the document, the
\* instances, whether an exception is propagating, and how many elements
\* were moved into a new wrapper.
PrepareOne(e, S) ==
  LET el == S.els[e] IN
  IF S.threw \/ e \notin Matching(S.els) THEN S
  ELSE IF AlreadyInitialized(el) THEN S
  ELSE IF ParentDerefThrows(el) THEN [S EXCEPT !.threw = TRUE]
  ELSE
    LET wrap == ~ParentIsWrapper(el)
        cfg == ReadConfig(el.at)
        el2 == [el EXCEPT !.parent = IF wrap THEN "wrapper" ELSE @,
                          !.wraps = IF wrap THEN @ + 1 ELSE @,
                          !.init = TRUE]
    IN  [els |-> [S.els EXCEPT ![e] = el2],
         instances |-> Append(S.instances,
            [img |-> e, wrapper |-> e,
             direction |-> cfg.direction, speed |-> cfg.speed,
             imageHeight |-> cfg.imageHeight,
             horizontalScale |-> cfg.horizontalScale,
             disableMobile |-> cfg.disableMobile,
             disableTablet |-> cfg.disableTablet]),
         threw |-> FALSE,
         wrapped |-> S.wrapped + (IF wrap THEN 1 ELSE 0)]

RECURSIVE PrepareFrom(_, _)
PrepareFrom(e, S) ==
  IF e > NumElems THEN S ELSE PrepareFrom(e + 1, PrepareOne(e, S))

\* An attachment step that does not look at the attached flag.
ShouldAttach_NoFlag(insts, added) == Len(insts) > 0

\* Line 141: instances.length > 0 && !window._parallaxListenerAdded.
ShouldAttach(insts, added) == Len(insts) > 0 /\ ~added

\* Lines 17-148: initParallax from the current state. The result names the
\* new values, whether a TypeError left the function (threw), whether the
\* final updateParallax ran (pass), and the elements moved into new wrappers.
RunInitParallax ==
  IF Matching(els) = {}
  THEN [els |-> els, instances |-> instances, attach |-> FALSE,
        transform |-> transform, threw |-> FALSE, pass |-> FALSE, wrapped |-> 0]
  ELSE
    LET S == PrepareFrom(0, [els |-> els, instances |-> instances,
                             threw |-> FALSE, wrapped |-> 0])
    IN  IF S.threw
        THEN [els |-> S.els, instances |-> S.instances, attach |-> FALSE,
              transform |-> transform, threw |-> TRUE, pass |-> FALSE,
              wrapped |-> S.wrapped]
        ELSE [els |-> S.els, instances |-> S.instances,
              attach |-> ShouldAttach(S.instances, listenerAdded),
              transform |-> updateParallax(S.instances, transform, S.els, win),
              threw |-> FALSE, pass |-> TRUE, wrapped |-> S.wrapped]

\* --------------------------------------------------------------- timers
RECURSIVE SumOver(_, _)
SumOver(S, b) ==
  IF S = {} THEN 0
  ELSE LET r == CHOOSE x \in S : TRUE IN b[r] + SumOver(S \ {r}, b)

Pending(tm) == SumOver(DOMAIN tm, tm)

\* setTimeout: n more timers r.
AddTimers(tm, r, n) ==
  IF n = 0 THEN tm
  ELSE [x \in DOMAIN tm \cup {r} |->
          (IF x \in DOMAIN tm THEN tm[x] ELSE 0) + (IF x = r THEN n ELSE 0)]

\* One timer r has fired.
DropTimer(tm, r) ==
  [x \in {y \in DOMAIN tm : y # r \/ tm[y] > 1} |->
     IF x = r THEN tm[x] - 1 ELSE tm[x]]

\* A resize listener that leaves the pending timer running.
clearTimeout_Noop(tm) == tm

\* Line 229: clearTimeout(resizeTimeout) cancels the timer the handle names,
\* if it is still pending.
clearTimeout(tm) == [x \in {y \in DOMAIN tm : ~y.handle} |-> tm[x]]

\* TickMs milliseconds pass.
Aged(tm) ==
  LET dec(r) == [r EXCEPT !.rem = IF @ > TickMs THEN @ - TickMs ELSE 0]
      S == {dec(r) : r \in DOMAIN tm}
  IN  [s \in S |-> SumOver({r \in DOMAIN tm : dec(r) = s}, tm)]

ReinitTimer == [fn |-> "initParallax", rem |-> ReinitDelay, handle |-> FALSE]
InitTimer == [fn |-> "init", rem |-> ReinitDelay, handle |-> FALSE]
ResizeTimer == [fn |-> "updateParallax", rem |-> ResizeDelay, handle |-> TRUE]
\* The second script's setTimeout(initParallax, 100), src/parallax.js line 467.
ReinitTimerB == [fn |-> "initParallaxB", rem |-> ReinitDelay, handle |-> FALSE]

\* Lines 238-255: every registered observer is told of a batch of added
\* nodes; when one of them carries, or contains, the marker attribute it
\* schedules initParallax: obsA observers of the script, and obsB of the
\* second script of src/parallax.js (lines 452-469), registered after them.
NotifyAll(tm, n, obsA, obsB) ==
  IF n > 0
  THEN AddTimers(AddTimers(tm, ReinitTimer, obsA), ReinitTimerB, obsB)
  ELSE tm

Notify(tm, n) == NotifyAll(tm, n, observers, second.observers)

\* ------------------------------------------------------------ handlers
Min(a, b) == IF a < b THEN a ELSE b

\* initParallax run as a whole handler: with timers tm left pending, named op
\* in the history; observe says that the caller is init, which goes on to
\* observeDOM (lines 264-267) unless initParallax threw.
InitParallaxStep(tm, op, observe) ==
  \E r \in {RunInitParallax} :
    /\ els' = r.els
    /\ instances' = r.instances
    /\ listenerAdded' = (listenerAdded \/ r.attach)
    /\ scrollListeners' = scrollListeners + (IF r.attach THEN 1 ELSE 0)
    /\ resizeListeners' = resizeListeners + (IF r.attach THEN 1 ELSE 0)
    /\ transform' = r.transform
    /\ timers' = Notify(tm, r.wrapped)
    /\ observers' = IF observe /\ ~r.threw THEN observers + 1 ELSE observers
    /\ last' = [op |-> op, threw |-> r.threw, pass |-> r.pass]
    /\ UNCHANGED <<ticking, rafPending, sinceResize, win, hist, second>>

\* updateParallax run as a whole handler.
PassStep(op) ==
  /\ transform' = updateParallax(instances, transform, els, win)
  /\ last' = [op |-> op, threw |-> FALSE, pass |-> TRUE]

\* Lines 269-273: DOMContentLoaded (or the script's own start) calls init.
DocReady ==
  /\ ready = "loading"
  /\ ready' = "done"
  /\ InitParallaxStep(timers, "init", TRUE)
  /\ UNCHANGED webflow

\* Lines 276-280: the host framework runs the pushed callback, which
\* schedules init.
WebflowReady ==
  /\ webflow = "pushed"
  /\ webflow' = "called"
  /\ timers' = AddTimers(timers, InitTimer, 1)
  /\ last' = [op |-> "env", threw |-> FALSE, pass |-> FALSE]
  /\ UNCHANGED <<second, els, instances, listenerAdded, scrollListeners, resizeListeners,
                 ticking, rafPending, sinceResize, observers, ready, win,
                 transform, hist>>

\* Line 278: the timer of setTimeout(init, 100) fires.
InitTimerFire ==
  /\ \E r \in DOMAIN timers :
       /\ r.fn = "init" /\ r.rem = 0
       /\ InitParallaxStep(DropTimer(timers, r), "init", TRUE)
  /\ UNCHANGED <<ready, webflow>>

\* Line 253: the timer of setTimeout(initParallax, 100) fires.
ReinitTimerFire ==
  /\ \E r \in DOMAIN timers :
       /\ r.fn = "initParallax" /\ r.rem = 0
       /\ InitParallaxStep(DropTimer(timers, r), "init", FALSE)
  /\ UNCHANGED <<ready, webflow>>

\* Line 284: WebflowParallax.init().
ManualInit ==
  /\ InitParallaxStep(timers, "init", FALSE)
  /\ UNCHANGED <<ready, webflow>>

\* Line 285: WebflowParallax.update().
ManualUpdate ==
  /\ PassStep("pass")
  /\ UNCHANGED <<second, els, instances, listenerAdded, scrollListeners, resizeListeners,
                 ticking, rafPending, timers, sinceResize, observers, ready,
                 webflow, win, hist>>

\* A scroll listener without the pending guard.
ScrollRequestsFrame_NoGuard == scrollListeners > 0

\* Lines 216-224: the page scrolls to offset y; the scroll listener, when
\* registered, requests a frame unless one is pending.
ScrollRequestsFrame == scrollListeners > 0 /\ ~ticking

\* src/parallax.js lines 430-438: the second script's scroll listener, with
\* a guard of its own.
SecondOnScroll ==
  IF second.listeners > 0 /\ ~second.ticking
  THEN [second EXCEPT !.rafPending = @ + 1, !.ticking = TRUE]
  ELSE second

Scroll(y) ==
  /\ y # win.y
  /\ win' = [win EXCEPT !.y = y]
  /\ IF ScrollRequestsFrame
     THEN rafPending' = rafPending + 1 /\ ticking' = TRUE
     ELSE UNCHANGED <<rafPending, ticking>>
  /\ hist' = IF scrollListeners > 0 THEN [hist EXCEPT !.scrolls = Min(2, @ + 1)]
             ELSE hist
  /\ second' = SecondOnScroll
  /\ last' = [op |-> "env", threw |-> FALSE, pass |-> FALSE]
  /\ UNCHANGED <<els, instances, listenerAdded, scrollListeners, resizeListeners,
                 timers, sinceResize, observers, ready, webflow, transform>>

\* A frame callback that leaves the guard set.
TickingAfterPass_Stuck == TRUE

\* Line 220: ticking = false, once the callback's updateParallax has returned.
TickingAfterPass == FALSE

\* Lines 218-221: the browser serves a frame request.
Frame ==
  /\ rafPending > 0
  /\ rafPending' = rafPending - 1
  /\ PassStep("pass")
  /\ ticking' = TickingAfterPass
  /\ hist' = [hist EXCEPT !.scrolls = 0]
  /\ UNCHANGED <<second, els, instances, listenerAdded, scrollListeners, resizeListeners,
                 timers, sinceResize, observers, ready, webflow, win>>

\* Lines 228-231: the window is resized to w x h; the resize listener, when
\* registered, restarts the debounce timer.
ResizeRestart(tm) == AddTimers(clearTimeout(tm), ResizeTimer, 1)

Resize(w, h) ==
  /\ win' = [win EXCEPT !.w = w, !.h = h]
  /\ sinceResize' = 0
  /\ timers' = IF resizeListeners > 0 THEN ResizeRestart(timers) ELSE timers
  /\ hist' = IF resizeListeners > 0
             THEN [hist EXCEPT !.events = IF hist.runs > 0 THEN 1 ELSE Min(2, @ + 1),
                               !.runs = 0]
             ELSE hist
  /\ last' = [op |-> "env", threw |-> FALSE, pass |-> FALSE]
  /\ UNCHANGED <<second, els, instances, listenerAdded, scrollListeners, resizeListeners,
                 ticking, rafPending, observers, ready, webflow, transform>>

\* Line 230: the debounce timer fires.
ResizeTimerFire ==
  /\ \E r \in DOMAIN timers :
       /\ r.fn = "updateParallax" /\ r.rem = 0
       /\ timers' = DropTimer(timers, r)
  /\ PassStep("resizeTimer")
  /\ hist' = [hist EXCEPT !.runs = Min(2, @ + 1)]
  /\ UNCHANGED <<second, els, instances, listenerAdded, scrollListeners, resizeListeners,
                 ticking, rafPending, sinceResize, observers, ready, webflow, win>>

\* Time passes while some timer is not yet due.
Tick ==
  /\ \E r \in DOMAIN timers : r.rem > 0
  /\ timers' = Aged(timers)
  /\ sinceResize' = Min(ResizeDelay, sinceResize + TickMs)
  /\ UNCHANGED <<second, els, instances, listenerAdded, scrollListeners, resizeListeners,
                 ticking, rafPending, observers, ready, webflow, win,
                 transform, last, hist>>

\* ---------------------------------------------------------- the page
\* Another script inserts marker element e into the body; the observers
\* see the added node (lines 241-254).
Insert(e) ==
  /\ ~els[e].inDoc
  /\ Pending(timers) + observers + second.observers <= MaxTimers
  /\ els' = [els EXCEPT ![e].inDoc = TRUE]
  /\ timers' = Notify(timers, 1)
  /\ last' = [op |-> "env", threw |-> FALSE, pass |-> FALSE]
  /\ UNCHANGED <<second, instances, listenerAdded, scrollListeners, resizeListeners,
                 ticking, rafPending, sinceResize, observers, ready, webflow,
                 win, transform, hist>>

\* Another script removes element e (with its wrapper) from the document.
Remove(e) ==
  /\ els[e].inDoc
  /\ els' = [els EXCEPT ![e].inDoc = FALSE]
  /\ last' = [op |-> "env", threw |-> FALSE, pass |-> FALSE]
  /\ UNCHANGED <<second, instances, listenerAdded, scrollListeners, resizeListeners,
                 ticking, rafPending, timers, sinceResize, observers, ready,
                 webflow, win, transform, hist>>

\* The marker attribute is set on the document's root element.
MarkRoot ==
  /\ ~els[Root].marker
  /\ els' = [els EXCEPT ![Root].marker = TRUE]
  /\ last' = [op |-> "env", threw |-> FALSE, pass |-> FALSE]
  /\ UNCHANGED <<second, instances, listenerAdded, scrollListeners, resizeListeners,
                 ticking, rafPending, timers, sinceResize, observers, ready,
                 webflow, win, transform, hist>>

\* Attribute sets of the page's marker elements.
NoAttrs ==
  [direction |-> "absent", speed |-> Absent, height |-> Absent, scale |-> Absent,
   mobile |-> "absent", tablet |-> "absent"]

HorizontalAttrs ==
  [direction |-> "Horizontal", speed |-> Num(1, 1), height |-> Num(150, 1),
   scale |-> Num(12, 10), mobile |-> "false", tablet |-> "false"]

\* The page's layout: the container of element e, in document coordinates.
docTopOf(e) == IF e = Root THEN 0 ELSE IF e = 1 THEN 1200 ELSE 2000
boxHOf(e) == IF e = Root THEN 0 ELSE IF e = 1 THEN 800 ELSE 400

RootEl ==
  [inDoc |-> TRUE, marker |-> FALSE, parent |-> "none", init |-> FALSE,
   wraps |-> 0, at |-> NoAttrs, docTop |-> docTopOf(Root), boxH |-> boxHOf(Root)]

TargetEl(e, inDoc, parent, at) ==
  [inDoc |-> inDoc, marker |-> TRUE, parent |-> parent, init |-> FALSE,
   wraps |-> 0, at |-> at, docTop |-> docTopOf(e), boxH |-> boxHOf(e)]

\* The second script of src/parallax.js before it has run, lines 291 and 428.
SecondInit ==
  [instances |-> <<>>, listeners |-> 0, ticking |-> FALSE, rafPending |-> 0,
   observers |-> 0]

\* The state once the script has been evaluated while the document loads.
InitWith(doc, w, wf) ==
  /\ els = doc
  /\ instances = <<>>
  /\ listenerAdded = FALSE
  /\ scrollListeners = 0
  /\ resizeListeners = 0
  /\ ticking = FALSE
  /\ rafPending = 0
  /\ timers = EmptyBag
  /\ sinceResize = ResizeDelay
  /\ observers = 0
  /\ ready = "loading"
  /\ webflow = wf
  /\ win = w
  /\ transform = [e \in Elem |-> TUnset]
  /\ last = [op |-> "env", threw |-> FALSE, pass |-> FALSE]
  /\ hist = [events |-> 0, runs |-> 0, scrolls |-> 0]
  /\ second = SecondInit

\* The page's markup: element 2 sits in a container the page itself gave the
\* wrapper class and carries every configuration attribute.
parentOf(e) == IF e = 2 THEN "authored" ELSE "plain"
attrsOf(e) == IF e = 2 THEN HorizontalAttrs ELSE NoAttrs

Page(present, at1) ==
  [e \in Elem |-> IF e = Root THEN RootEl
                  ELSE TargetEl(e, e \in present, parentOf(e),
                                IF e = 1 THEN at1 ELSE attrsOf(e))]

\* Preparation: the marker elements are yet to be inserted, the page scrolls,
\* the window keeps its size.
Init ==
  \E wf \in {"none", "pushed"} :
    InitWith(Page({}, NoAttrs), [w |-> 1000, h |-> 800, y |-> 0], wf)

Next ==
  \/ DocReady
  \/ WebflowReady
  \/ InitTimerFire
  \/ ReinitTimerFire
  \/ ManualInit
  \/ \E y \in {0, 800} : Scroll(y)
  \/ Frame
  \/ Tick
  \/ \E e \in Targets : Insert(e)
  \/ \E e \in Targets : Remove(e)
  \/ MarkRoot

Spec == Init /\ [][Next]_vars

\* Scheduling: a page whose marker elements are all there from the start is
\* scrolled and resized while time passes.
InitSched ==
  InitWith(Page(Targets, NoAttrs), [w |-> 1000, h |-> 800, y |-> 0], "none")

NextSched ==
  \/ DocReady
  \/ ManualInit
  \/ ManualUpdate
  \/ \E y \in {0, 800} : Scroll(y)
  \/ Frame
  \/ \E w \in {500, 1000} : Resize(w, 800)
  \/ ResizeTimerFire
  \/ Tick

SpecSched == InitSched /\ [][NextSched]_vars

\* Line 218: a frame request of the scroll listener is served. The steps of
\* the specifications that take a request off are exactly those of Frame,
\* which is enabled exactly when a request is outstanding.
FrameServed == rafPending > 0 /\ rafPending' = rafPending - 1

\* The same, in a browser that serves every frame request in the end.
SpecSchedLive == SpecSched /\ WF_rafPending(FrameServed)

\* Evaluation: a page with one marker element, whose attributes are any of
\* EvalAttrs, is prepared, scrolled and resized; passes are run by frames
\* and by WebflowParallax.update.
EvalAttrs ==
  {[direction |-> dir, speed |-> sp, height |-> ht, scale |-> sc,
    mobile |-> fl[1], tablet |-> fl[2]] :
     dir \in {"absent", "Horizontal", "both"},
     sp \in {Absent, Num(-3, 1), Num(50, 1)},
     ht \in {Absent},
     sc \in {Absent, Num(1, 1), Num(3, 1)},
     fl \in {<<"absent", "absent">>, <<"false", "absent">>, <<"absent", "false">>}}

EvalSizes ==
  {<<500, 800>>, <<767, 800>>, <<768, 800>>, <<991, 800>>, <<992, 800>>, <<1000, 600>>}

EvalOffsets == {0, 400, 800, 1200, 1900, 2000}

InitEval ==
  \E at \in EvalAttrs :
    InitWith(Page({1}, at), [w |-> 992, h |-> 800, y |-> 0], "none")

NextEval ==
  \/ DocReady
  \/ ManualUpdate
  \/ \E y \in EvalOffsets : Scroll(y)
  \/ Frame
  \/ \E sz \in EvalSizes : Resize(sz[1], sz[2])

SpecEval == InitEval /\ [][NextEval]_vars

\* Geometry: a page with one Vertical marker element, whose container has
\* any of GeomHeights as its height and any of GeomTops as its place in the
\* document, is prepared, scrolled and resized.
GeomTops == {0, 1200}
GeomHeights == {0, 1, 800, 3000}
GeomSizes == {<<1000, 1>>, <<1000, 600>>, <<1000, 800>>}

InitGeom ==
  \E t \in GeomTops, b \in GeomHeights :
    InitWith([Page({1}, NoAttrs) EXCEPT ![1].docTop = t, ![1].boxH = b],
             [w |-> 1000, h |-> 800, y |-> 0], "none")

NextGeom ==
  \/ DocReady
  \/ ManualUpdate
  \/ \E y \in EvalOffsets : Scroll(y)
  \/ Frame
  \/ \E sz \in GeomSizes : Resize(sz[1], sz[2])

SpecGeom == InitGeom /\ [][NextGeom]_vars

\* Configuration: a page with one marker element, whose speed, height and
\* scale attributes are each missing, not a number, zero, negative or
\* positive, is prepared and scrolled.
ConfigAttrs ==
  {[direction |-> "absent", speed |-> sp, height |-> ht, scale |-> sc,
    mobile |-> "absent", tablet |-> "absent"] :
     sp \in {Absent, Junk, Num(0, 1), Num(-3, 1), Num(1, 2)},
     ht \in {Absent, Junk, Num(0, 1), Num(-20, 1), Num(150, 1)},
     sc \in {Absent, Junk, Num(0, 1), Num(-1, 1), Num(12, 10)}}

InitConfig ==
  \E at \in ConfigAttrs :
    InitWith(Page({1}, at), [w |-> 1000, h |-> 800, y |-> 0], "none")

NextConfig ==
  \/ DocReady
  \/ ManualInit
  \/ \E y \in {0, 800} : Scroll(y)
  \/ Frame

SpecConfig == InitConfig /\ [][NextConfig]_vars

\* Line 253: a due timer of setTimeout(initParallax, 100) is served. The
\* steps of the specifications that take such a timer off the pending ones
\* are exactly those of ReinitTimerFire, which is enabled exactly when one is
\* due; the call's own DOM changes, if any, are notified.
ReinitTimerServed ==
  \E r \in DOMAIN timers :
    /\ r.fn = "initParallax" /\ r.rem = 0
    /\ \E n \in {0, 1} : timers' = Notify(DropTimer(timers, r), n)

\* Mutation feedback: the page of Spec, with the host framework's callback
\* queued, so that two observers get registered; marker elements come and
\* go, time passes and every due timer of the observers is served.
InitFeedback ==
  InitWith(Page({}, NoAttrs), [w |-> 1000, h |-> 800, y |-> 0], "pushed")

NextFeedback ==
  \/ DocReady
  \/ WebflowReady
  \/ InitTimerFire
  \/ ReinitTimerFire
  \/ ManualInit
  \/ Tick
  \/ \E e \in Targets : Insert(e)
  \/ \E e \in Targets : Remove(e)
  \/ MarkRoot

SpecFeedback ==
  /\ InitFeedback /\ [][NextFeedback]_vars
  /\ WF_vars(Tick) /\ WF_timers(ReinitTimerServed)

\* ----------------------------------- src/parallax.js: two scripts, one page
\* The file holds version 2.3.0 of the script (lines 1-277) followed by
\* version 1.1.0 (lines 279-503). Both run in the page, share the document,
\* window._parallaxListenerAdded and the data-parallax-init marker; each has
\* an instances array, a ticking guard and an observer of its own. Version
\* 2.3.0 differs from the script modelled above in the horizontal
\* translation only (lines 173-184), so on a page of Vertical elements its
\* state and handlers are the ones above; version 1.1.0 is modelled here.

\* Lines 298-392: the second script's forEach body for element e.
PrepareOneB(e, S) ==
  LET el == S.els[e] IN
  IF S.threw \/ e \notin Matching(S.els) THEN S
  ELSE IF AlreadyInitialized(el) THEN S
  ELSE IF ParentDerefThrows(el) THEN [S EXCEPT !.threw = TRUE]
  ELSE
    LET wrap == ~ParentIsWrapper(el)
        cfg == ReadConfig(el.at)
        el2 == [el EXCEPT !.parent = IF wrap THEN "wrapper" ELSE @,
                          !.wraps = IF wrap THEN @ + 1 ELSE @,
                          !.init = TRUE]
    IN  [els |-> [S.els EXCEPT ![e] = el2],
         instances |-> Append(S.instances,
            [img |-> e, wrapper |-> e, speed |-> cfg.speed,
             disableMobile |-> cfg.disableMobile,
             disableTablet |-> cfg.disableTablet]),
         threw |-> FALSE,
         wrapped |-> S.wrapped + (IF wrap THEN 1 ELSE 0)]

RECURSIVE PrepareFromB(_, _)
PrepareFromB(e, S) ==
  IF e > NumElems THEN S ELSE PrepareFromB(e + 1, PrepareOneB(e, S))

\* Lines 408-423: one instance's step of the second script's forEach.
EvalInstanceB(inst, old, rect, w, h) ==
  IF Gated(inst, w) THEN T3d(Zero)
  ELSE IF InViewport(rect, h)
  THEN T3d(parallaxOffset(centerProgress(rect, h), inst.speed))
  ELSE old

\* Lines 404-425: the second script's updateParallax.
RECURSIVE UpdateFromB(_, _, _, _, _)
UpdateFromB(k, insts, tr, doc, w) ==
  IF k > Len(insts) THEN tr
  ELSE LET inst == insts[k]
       IN  UpdateFromB(k + 1, insts,
             [tr EXCEPT ![inst.img] =
                EvalInstanceB(inst, @, Rect(doc[inst.img], w.y), w.w, w.h)],
             doc, w)

updateParallaxB(insts, tr, doc, w) == UpdateFromB(1, insts, tr, doc, w)

\* Lines 293-402: the second script's initParallax on document doc, with its
\* instances insts, the transforms tr and the shared attached flag.
RunInitParallaxB(doc, insts, tr, added) ==
  IF Matching(doc) = {}
  THEN [els |-> doc, instances |-> insts, attach |-> FALSE,
        transform |-> tr, threw |-> FALSE, pass |-> FALSE, wrapped |-> 0]
  ELSE
    LET S == PrepareFromB(0, [els |-> doc, instances |-> insts,
                              threw |-> FALSE, wrapped |-> 0])
    IN  IF S.threw
        THEN [els |-> S.els, instances |-> S.instances, attach |-> FALSE,
              transform |-> tr, threw |-> TRUE, pass |-> FALSE,
              wrapped |-> S.wrapped]
        ELSE [els |-> S.els, instances |-> S.instances,
              attach |-> ShouldAttach(S.instances, added),
              transform |-> updateParallaxB(S.instances, tr, S.els, win),
              threw |-> FALSE, pass |-> TRUE, wrapped |-> S.wrapped]

\* The second script's state once its initParallax has returned r; observe
\* says that init goes on to observeDOM (lines 478-481).
SecondAfter(r, observe) ==
  [second EXCEPT !.instances = r.instances,
                 !.listeners = @ + (IF r.attach THEN 1 ELSE 0),
                 !.observers = IF observe /\ ~r.threw THEN @ + 1 ELSE @]

\* The second script's initParallax run as a whole handler, with timers tm
\* left pending.
SecondInitParallaxStep(tm) ==
  \E r \in {RunInitParallaxB(els, second.instances, transform, listenerAdded)} :
    /\ els' = r.els
    /\ second' = SecondAfter(r, FALSE)
    /\ listenerAdded' = (listenerAdded \/ r.attach)
    /\ transform' = r.transform
    /\ timers' = Notify(tm, r.wrapped)
    /\ last' = [op |-> "init", threw |-> r.threw, pass |-> r.pass]
    /\ UNCHANGED <<instances, scrollListeners, resizeListeners, ticking,
                   rafPending, sinceResize, observers, win, hist>>

\* Lines 257-261 and 483-487: DOMContentLoaded calls the first script's init,
\* then the second's; the first script's observer, registered by then, sees
\* what the second moves.
DocReadyTwo ==
  /\ ready = "loading"
  /\ ready' = "done"
  /\ LET a == RunInitParallax
         obsA == IF a.threw THEN observers ELSE observers + 1
         addedA == listenerAdded \/ a.attach
         b == RunInitParallaxB(a.els, second.instances, a.transform, addedA)
     IN  /\ els' = b.els
         /\ instances' = a.instances
         /\ scrollListeners' = scrollListeners + (IF a.attach THEN 1 ELSE 0)
         /\ resizeListeners' = resizeListeners + (IF a.attach THEN 1 ELSE 0)
         /\ observers' = obsA
         /\ second' = SecondAfter(b, TRUE)
         /\ listenerAdded' = (addedA \/ b.attach)
         /\ transform' = b.transform
         /\ timers' = NotifyAll(Notify(timers, a.wrapped), b.wrapped,
                                obsA, second.observers)
         /\ last' = [op |-> "init", threw |-> a.threw \/ b.threw,
                     pass |-> a.pass \/ b.pass]
  /\ UNCHANGED <<ticking, rafPending, sinceResize, webflow, win, hist>>

\* Line 467: the second script's setTimeout(initParallax, 100) fires; of the
\* timers due, the first script's, set first, fire first.
ReinitTimerFireB ==
  /\ \A q \in DOMAIN timers : ~(q.fn = "initParallax" /\ q.rem = 0)
  /\ \E r \in DOMAIN timers :
       /\ r.fn = "initParallaxB" /\ r.rem = 0
       /\ SecondInitParallaxStep(DropTimer(timers, r))
  /\ UNCHANGED <<ready, webflow>>

\* Lines 497-498: WebflowParallax.init() is the second script's initParallax.
ManualInitB ==
  /\ SecondInitParallaxStep(timers)
  /\ UNCHANGED <<ready, webflow>>

\* Line 499: WebflowParallax.update() is the second script's updateParallax.
ManualUpdateB ==
  /\ transform' = updateParallaxB(second.instances, transform, els, win)
  /\ last' = [op |-> "pass", threw |-> FALSE, pass |-> TRUE]
  /\ UNCHANGED <<els, instances, listenerAdded, scrollListeners, resizeListeners,
                 ticking, rafPending, timers, sinceResize, observers, ready,
                 webflow, win, hist, second>>

\* Lines 432-435: the browser serves a frame request of the second script.
FrameB ==
  /\ second.rafPending > 0
  /\ second' = [second EXCEPT !.rafPending = @ - 1, !.ticking = FALSE]
  /\ transform' = updateParallaxB(second.instances, transform, els, win)
  /\ last' = [op |-> "pass", threw |-> FALSE, pass |-> TRUE]
  /\ UNCHANGED <<els, instances, listenerAdded, scrollListeners, resizeListeners,
                 ticking, rafPending, timers, sinceResize, observers, ready,
                 webflow, win, hist>>

\* A page of Vertical marker elements in containers of the page's own.
PageTwo(present) ==
  [e \in Elem |-> IF e = Root THEN RootEl
                  ELSE TargetEl(e, e \in present, "plain", NoAttrs)]

InitTwo == InitWith(PageTwo({}), [w |-> 1000, h |-> 800, y |-> 0], "none")

NextTwo ==
  \/ DocReadyTwo
  \/ ReinitTimerFire
  \/ ReinitTimerFireB
  \/ ManualInitB
  \/ ManualUpdateB
  \/ \E y \in {0, 800} : Scroll(y)
  \/ Frame
  \/ FrameB
  \/ Tick
  \/ \E e \in Targets : Insert(e)
  \/ \E e \in Targets : Remove(e)

SpecTwo == InitTwo /\ [][NextTwo]_vars

\* ---------------------------------------------------------------- claims
\* Number of tracked instances whose element is e.
InstancesOf(e) == Cardinality({k \in 1 .. Len(instances) : instances[k].img = e})

\* Pending timers that run fn.
PendingOf(fn) == SumOver({r \in DOMAIN timers : r.fn = fn}, timers)

\* C1: however often and in whatever order preparation runs (document-ready
\* init, delayed init, observer-triggered and manual initParallax, between
\* scrolls, frames, insertions and removals), no element has more than one
\* tracked instance or more than one wrapper made for it; an element has
\* exactly one tracked instance and sits in exactly one container (made for
\* it, or the page's own) from the moment it is prepared, and none before.
C1_IdempotentPreparation ==
  \A e \in Elem :
    /\ InstancesOf(e) = (IF els[e].init THEN 1 ELSE 0)
    /\ els[e].wraps <= 1
    /\ els[e].init => els[e].parent \in {"wrapper", "authored"}
    /\ els[e].wraps = (IF els[e].parent = "wrapper" THEN 1 ELSE 0)

\* Element 2 was prepared by an earlier pass than element 1, and a later
\* initParallax has run with both in the document.
C1_Witness ==
  /\ NumElems >= 2
  /\ Len(instances) >= 2
  /\ instances[1].img = 2 /\ instances[2].img = 1
  /\ els[1].inDoc /\ els[2].inDoc
  /\ last.op = "init" /\ ~last.threw

\* C2: the scroll listener and the resize listener are each registered at
\* most once; they are registered exactly when the tracked-instance
\* collection is non-empty at the end of a handler, that is by the first
\* preparation pass that leaves it non-empty; and no step removes one.
C2_ListenersInv ==
  /\ scrollListeners = (IF listenerAdded THEN 1 ELSE 0)
  /\ resizeListeners = (IF listenerAdded THEN 1 ELSE 0)
  /\ listenerAdded <=> (Len(instances) > 0)

C2_ListenersOnce ==
  /\ []C2_ListenersInv
  /\ [][/\ scrollListeners' >= scrollListeners
        /\ resizeListeners' >= resizeListeners
        /\ (scrollListeners' > scrollListeners =>
              Len(instances) = 0 /\ Len(instances') > 0 /\ last'.op = "init")]_vars

\* Both init calls have run, a later initParallax too, and one pair of
\* listeners is registered.
C2_Witness ==
  /\ observers = 2
  /\ scrollListeners = 1 /\ resizeListeners = 1
  /\ Len(instances) >= 2
  /\ last.op = "init"

\* C10: when the marker-bearing root element, which has no parent element,
\* is in the document, a preparation pass raises no error, leaves the root
\* unmarked and untracked, prepares every other marker element of the
\* document, runs the listener attachment step and the final evaluation pass.
C10_OrphanSkippedSilently ==
  (last.op = "init" /\ Root \in Matching(els)) =>
     /\ ~last.threw
     /\ ~els[Root].init /\ InstancesOf(Root) = 0
     /\ \A e \in Matching(els) \ {Root} : els[e].init
     /\ Len(instances) > 0 => listenerAdded
     /\ last.pass

\* C3: at most one frame request of the scroll listener is outstanding, and
\* the pending guard is set exactly while it is; so the scroll events
\* between two frames lead to one pass at the next frame.
C3_ScrollCoalescing ==
  /\ rafPending <= 1
  /\ ticking <=> (rafPending = 1)
  /\ hist.scrolls > 0 => rafPending = 1

\* Two or more scroll events have arrived since the last frame.
C3_Witness == hist.scrolls = 2 /\ rafPending = 1 /\ scrollListeners = 1

\* C4: at most one debounce timer is pending; it is not due before 150ms
\* have passed since the last resize event, a resize-driven pass runs only
\* then, and at most one such pass follows a burst of resize events.
C4_ResizeDebounce ==
  /\ PendingOf("updateParallax") <= 1
  /\ \A r \in DOMAIN timers :
       r.fn = "updateParallax" => r.rem + sinceResize >= ResizeDelay
  /\ last.op = "resizeTimer" => sinceResize >= ResizeDelay
  /\ hist.runs <= 1
  /\ (hist.events > 0 /\ hist.runs = 0) => PendingOf("updateParallax") = 1

\* A burst of two or more resize events, each before the timer of the one
\* before it was due, has been followed by its one pass.
C4_Witness == last.op = "resizeTimer" /\ hist.events = 2 /\ hist.runs = 1

\* The container of the k-th instance, as the viewport sees it.
BoxOf(k) == Rect(els[instances[k].img], win.y)

\* The k-th instance's container is fully outside the viewport.
OffScreen(k) == BoxOf(k).top >= win.h \/ BoxOf(k).bottom <= 0

\* The k-th instance's disable flag is set for the band the width is in.
InDisabledBand(k) ==
  \/ instances[k].disableMobile /\ win.w < 768
  \/ instances[k].disableTablet /\ win.w >= 768 /\ win.w < 992

\* The transform the k-th instance's element holds.
Applied(k) == transform[instances[k].img]

\* C5 as claimed: a pass leaves the transform of every instance whose
\* container is fully outside the viewport as it was.
C5_OffscreenNoop ==
  [][last'.pass =>
       \A k \in 1 .. Len(instances') :
         OffScreen(k)' => Applied(k)' = transform[instances'[k].img]]_vars

\* C5, amended: a pass leaves the transform of every instance whose
\* container is fully outside the viewport, and whose disable flag is not
\* set for the current width band, as it was.
C5_OffscreenNoopUngated ==
  [][last'.pass =>
       \A k \in 1 .. Len(instances') :
         (OffScreen(k)' /\ ~InDisabledBand(k)') =>
            Applied(k)' = transform[instances'[k].img]]_vars

\* A pass has run over an ungated instance that is off screen and still
\* holds the translation an earlier pass gave it.
C5_Witness ==
  /\ last.pass
  /\ \E k \in 1 .. Len(instances) :
       /\ OffScreen(k) /\ ~InDisabledBand(k)
       /\ Applied(k).kind \in {"translate3d", "scaleTranslateX", "scaleTranslate"}

\* C6: after a pass, every instance whose mobile-disable flag is set while
\* the width is below 768, or whose tablet-disable flag is set while the
\* width is in [768, 992), holds the transform none, on screen or off.
C6_BreakpointGating ==
  last.pass =>
    \A k \in 1 .. Len(instances) : InDisabledBand(k) => Applied(k) = TNone

\* A pass has run over an instance that is off screen and gated by its
\* tablet-disable flag.
C6_Witness ==
  /\ last.pass
  /\ \E k \in 1 .. Len(instances) :
       InDisabledBand(k) /\ OffScreen(k) /\ instances[k].disableTablet
          /\ Applied(k) = TNone

\* The k-th instance has the documented defaults but for the two flags.
DefaultNumbers(k) ==
  /\ instances[k].speed = FromInt(2)
  /\ instances[k].imageHeight = FromInt(130)
  /\ instances[k].horizontalScale = Rat(11, 10)
  /\ instances[k].direction = "vertical"

\* C7 as claimed: an element with no configuration attribute is tracked with
\* speed 2, height 130, scale 1.1, direction vertical and both disable
\* flags true.
C7_DefaultsFlagsTrue ==
  \A k \in 1 .. Len(instances) :
    els[instances[k].img].at = NoAttrs =>
      /\ DefaultNumbers(k)
      /\ instances[k].disableMobile /\ instances[k].disableTablet

\* C7, amended: such an element is tracked with speed 2, height 130, scale
\* 1.1, direction vertical and both disable flags false.
C7_DefaultsFlagsFalse ==
  \A k \in 1 .. Len(instances) :
    els[instances[k].img].at = NoAttrs =>
      /\ DefaultNumbers(k)
      /\ ~instances[k].disableMobile /\ ~instances[k].disableTablet

\* An element without configuration attributes has been prepared.
C7_Witness ==
  \E k \in 1 .. Len(instances) :
    els[instances[k].img].at = NoAttrs /\ els[instances[k].img].init

\* Twice the numerator of max(0, ((hs - 1) / 2) * 100 - 0.5) over the
\* denominator 2 * hs.d.
MaxTranslateNum(hs) ==
  IF 100 * (hs.n - hs.d) - hs.d > 0 THEN 100 * (hs.n - hs.d) - hs.d ELSE 0

\* C8: the horizontal translation a pass has written for a Horizontal or
\* Both instance lies in [-maxTranslate, +maxTranslate], whatever the speed
\* and the scale.
C8_HorizontalClamp ==
  \A k \in 1 .. Len(instances) :
    (/\ instances[k].direction \in {"horizontal", "both"}
     /\ Applied(k).kind \in {"scaleTranslateX", "scaleTranslate"}) =>
       Abs(Applied(k).x.n) * 2 * instances[k].horizontalScale.d
          <= MaxTranslateNum(instances[k].horizontalScale) * Applied(k).x.d

\* A pass has written a translation that sits on a non-zero bound for an
\* instance of speed 50, whose unclamped translation lies far outside.
C8_Witness ==
  /\ last.pass
  /\ \E k \in 1 .. Len(instances) :
       /\ instances[k].direction \in {"horizontal", "both"}
       /\ instances[k].speed = FromInt(50)
       /\ ~OffScreen(k) /\ ~InDisabledBand(k)
       /\ MaxTranslateNum(instances[k].horizontalScale) > 0
       /\ Abs(Applied(k).x.n) * 2 * instances[k].horizontalScale.d
            = MaxTranslateNum(instances[k].horizontalScale) * Applied(k).x.d

\* C9: after a pass, a Vertical instance that is visible and not gated holds
\* a pure vertical translation of
\*   ((h - top) / (h + height) - 0.5) * 200 * speed  pixels,
\* which is 0 exactly when the container's midpoint is the viewport's, and
\* -100 for h = 800, top = 400, height = 800, speed = 2.
C9_VerticalDisplacement ==
  last.pass =>
    \A k \in 1 .. Len(instances) :
      (/\ instances[k].direction \notin {"horizontal", "both"}
       /\ ~OffScreen(k) /\ ~InDisabledBand(k)) =>
         LET t == Applied(k)
             b == BoxOf(k)
             sp == instances[k].speed
         IN  /\ t.kind = "translate3d" /\ t.x = Zero /\ t.s = Zero
             /\ t.y.n * (win.h + b.height) * sp.d
                  = (win.h - 2 * b.top - b.height) * 100 * sp.n * t.y.d
             /\ (t.y.n = 0) <=> (2 * b.top + b.height = win.h)
             /\ (win.h = 800 /\ b.top = 400 /\ b.height = 800 /\ sp = FromInt(2))
                  => t.y = FromInt(-100)

\* The scenario has been evaluated: -100px at h = 800, top = 400,
\* height = 800, speed = 2.
C9_Witness ==
  /\ last.pass
  /\ \E k \in 1 .. Len(instances) :
       /\ instances[k].direction = "vertical" /\ instances[k].speed = FromInt(2)
       /\ ~InDisabledBand(k)
       /\ win.h = 800 /\ BoxOf(k).top = 400 /\ BoxOf(k).height = 800
       /\ Applied(k) = T3d(FromInt(-100))

\* Some marker element is in the document.
AnyMarkerInDocument == \E e \in Elem : els[e].inDoc /\ els[e].marker

\* C11 as claimed, for the invocations that return normally while instances
\* are tracked: an initParallax that has returned has run its evaluation
\* pass.
C11_PassEveryInvocation ==
  (last.op = "init" /\ ~last.threw /\ Len(instances) > 0) => last.pass

\* C11, amended: an initParallax that registers an instance runs one full
\* evaluation pass before it returns, so that every instance is evaluated in
\* the handler that registered it (a visible one holds a transform); an
\* initParallax runs that pass exactly when it finds a marker element in the
\* document and raises no error, whether or not it prepares one.
C11_PassOnRegistration ==
  /\ [](last.op = "init" => (last.pass <=> (AnyMarkerInDocument /\ ~last.threw)))
  /\ [][Len(instances') > Len(instances) =>
          /\ last'.op = "init" /\ last'.pass
          /\ \A k \in 1 .. Len(instances') :
               ~OffScreen(k)' => Applied(k)' # TUnset]_vars

\* An initParallax has run its pass with an instance tracked and on screen,
\* which holds its translation, and no frame request is outstanding.
C11_Witness ==
  /\ last.op = "init" /\ last.pass
  /\ \E k \in 1 .. Len(instances) :
       ~OffScreen(k) /\ Applied(k).kind = "translate3d"
  /\ rafPending = 0 /\ hist.scrolls = 0

\* C12: once an init has registered an observer, every marker element
\* inserted into the body is prepared and tracked by the initParallax that
\* the observer schedules: when no such call is pending any more, every
\* marker element of the body is prepared and tracked, whether or not the
\* page was scrolled or resized.
C12_InsertedPrepared ==
  (observers > 0 /\ PendingOf("initParallax") = 0) =>
     \A e \in Targets :
       els[e].inDoc => (els[e].init /\ InstancesOf(e) = 1)

\* The elements an instances array tracks.
Imgs(insts) == {insts[k].img : k \in 1 .. Len(insts)}

\* C13: on the page that loads src/parallax.js, every prepared element is in
\* the instances array that WebflowParallax.update iterates over, and in the
\* array that every registered pair of scroll and resize listeners iterates
\* over; and some pair is registered once an element is prepared.
C13_PreparedAreEvaluated ==
  \A e \in Elem :
    els[e].init =>
      /\ e \in Imgs(second.instances)
      /\ scrollListeners > 0 => e \in Imgs(instances)
      /\ second.listeners > 0 => e \in Imgs(second.instances)
      /\ scrollListeners + second.listeners > 0

\* C14: once the scroll listener is attached, every scroll event is followed
\* by a pass that a served frame runs, after which the guard is false and no
\* scroll event is left unserved; serving a frame runs a pass and clears the
\* guard; a scroll event that finds the guard clear requests a frame; and
\* the guard is never set while no frame request is outstanding.
C14_ScrollResponsive ==
  /\ (hist.scrolls > 0) ~> (last.op = "pass" /\ ~ticking /\ hist.scrolls = 0)
  /\ [][rafPending' < rafPending => (last'.pass /\ ~ticking')]_vars
  /\ [][(win'.y # win.y /\ scrollListeners > 0 /\ ~ticking) =>
          (rafPending' = rafPending + 1 /\ ticking')]_vars
  /\ [](ticking => rafPending > 0)

\* A frame has served a scroll event, the guard is clear, and the page has
\* been scrolled before that frame and after an earlier pass.
C14_Witness ==
  /\ last.op = "pass" /\ ~ticking /\ rafPending = 0
  /\ scrollListeners = 1 /\ hist.scrolls = 0
  /\ win.y # 0
  /\ \E e \in Targets : transform[e] # TUnset

\* The k-th instance's container passes the visibility gate.
OnScreen(k) == BoxOf(k).top < win.h /\ BoxOf(k).bottom > 0

\* C15: for every instance whose container passes the visibility gate, with
\* a viewport height above 0 and a container height of 0 or more,
\* scrollProgress lies strictly between 0 and 1 and centerProgress strictly
\* between -0.5 and 0.5; so the vertical offset a pass has written for it is
\* less than 100 * |speed| pixels either way.
C15_ProgressRange ==
  \A k \in 1 .. Len(instances) :
    (OnScreen(k) /\ win.h > 0 /\ BoxOf(k).height >= 0) =>
      LET sp == scrollProgress(BoxOf(k), win.h)
          cp == centerProgress(BoxOf(k), win.h)
          inst == instances[k]
      IN  /\ sp.d > 0 /\ 0 < sp.n /\ sp.n < sp.d
          /\ cp.d > 0 /\ -cp.d < 2 * cp.n /\ 2 * cp.n < cp.d
          /\ (last.pass /\ inst.direction = "vertical" /\ ~InDisabledBand(k)) =>
               /\ Applied(k).kind = "translate3d"
               /\ Abs(Applied(k).y.n) * inst.speed.d
                    < 100 * Abs(inst.speed.n) * Applied(k).y.d

\* A pass has run over a visible instance whose container is taller than the
\* viewport and reaches above its top edge.
C15_Witness ==
  /\ last.pass
  /\ \E k \in 1 .. Len(instances) :
       /\ OnScreen(k) /\ BoxOf(k).top < 0 /\ BoxOf(k).height > win.h
       /\ Applied(k).kind = "translate3d"

\* C16: every tracked instance holds the number its element's speed, height
\* (a whole number here) and scale attribute is, be it zero or negative, and
\* the default 2, 130 and 1.1 exactly when the attribute is missing or not a
\* number.
C16_NumbersUsedAsGiven ==
  \A k \in 1 .. Len(instances) :
    LET at == els[instances[k].img].at IN
    /\ instances[k].speed =
         (IF at.speed.k = "num" THEN at.speed.v ELSE FromInt(2))
    /\ instances[k].imageHeight =
         (IF at.height.k = "num" THEN at.height.v ELSE FromInt(130))
    /\ instances[k].horizontalScale =
         (IF at.scale.k = "num" THEN at.scale.v ELSE Rat(11, 10))

\* Wrappers made so far.
WrapsTotal == SumOver(Elem, [e \in Elem |-> els[e].wraps])

\* A marker element is inserted into the body.
Inserted == \E e \in Targets : ~els[e].inDoc /\ els'[e].inDoc

\* C17: an initParallax that finds every marker element of the document
\* prepared makes no wrapper, and one that makes no wrapper schedules no
\* further initParallax; no element gets a second wrapper; so, with one
\* observer or two, unless marker elements are inserted again and again,
\* the pending re-initialisation timers run out for good.
C17_FeedbackQuiesces ==
  /\ [][(last'.op = "init" /\ \A e \in Matching(els) : els[e].init) =>
          WrapsTotal' = WrapsTotal]_vars
  /\ [][(last'.op = "init" /\ WrapsTotal' = WrapsTotal) =>
          PendingOf("initParallax")' <= PendingOf("initParallax")]_vars
  /\ [](WrapsTotal <= NumElems)
  /\ ([]<><<Inserted>>_vars) \/ <>[](PendingOf("initParallax") = 0)

\* More re-initialisation timers are pending than insertions alone can
\* leave: an initParallax has wrapped an element under a registered observer.
C17_Witness ==
  /\ PendingOf("initParallax") > MaxTimers
  /\ observers > 0
  /\ WrapsTotal > 0

====
